---------------------------- MODULE Spec2Model ----------------------------
(***************************************************************************)
(* Model of the PrusaSlicer configuration codec (src/src/slicer/config.rs): *)
(* ConfigFile::parse, ConfigFile::to_map, ConfigFile::format and           *)
(* ConfigMap::to_file.  Text is a sequence of one-character strings; a     *)
(* &str slice is a sequence of characters; Option<T> is a record with a    *)
(* "some" flag.  HashMap iteration order is a nondeterministic choice.     *)
(***************************************************************************)
EXTENDS Integers, Sequences, FiniteSets, TLC

VARIABLES pc, origin, lines, contents, file, out, reparsed, map, refiled, remapped,
          printers, calls

vars == <<pc, origin, lines, contents, file, out, reparsed, map, refiled, remapped,
          printers, calls>>

-----------------------------------------------------------------------------
(* Bounds of the model *)

MaxLines == 4
MaxDocProps == 2
MaxDocSections == 2
MaxCalls == 4

-----------------------------------------------------------------------------
(* Option<T> *)

None == [some |-> FALSE, v |-> << >>]

Some(x) == [some |-> TRUE, v |-> x]

-----------------------------------------------------------------------------
(* String helpers: the std operations the code calls *)

NL == "\n"

SeqDrop(s, n) == IF n >= Len(s) THEN << >> ELSE SubSeq(s, n + 1, Len(s))

SeqTake(s, n) == IF n <= 0 THEN << >> ELSE SubSeq(s, 1, IF n > Len(s) THEN Len(s) ELSE n)

IsSpace(c) == c = " "

RECURSIVE TrimStart(_)
TrimStart(s) ==
    IF s # << >> /\ IsSpace(Head(s)) THEN TrimStart(Tail(s)) ELSE s

RECURSIVE TrimEnd(_)
TrimEnd(s) ==
    IF s # << >> /\ IsSpace(s[Len(s)]) THEN TrimEnd(SeqTake(s, Len(s) - 1)) ELSE s

Trim(s) == TrimEnd(TrimStart(s))

(* number of characters before the first character of stops (Len(s) if none) *)
RECURSIVE FindChr(_, _)
FindChr(s, stops) ==
    IF s = << >> \/ Head(s) \in stops THEN 0 ELSE 1 + FindChr(Tail(s), stops)

FindNl(s) == FindChr(s, {NL, "\r"})

FindNlChr(s, c) == FindChr(s, {NL, "\r", c})

(* the input after the line terminator that starts s, if any *)
SkipLn(s) ==
    IF Len(s) >= 2 /\ s[1] = "\r" /\ s[2] = NL THEN SeqDrop(s, 2)
    ELSE IF Len(s) >= 1 /\ s[1] \in {NL, "\r"} THEN SeqDrop(s, 1)
    ELSE s

(* str::split(';'): one token more than there are separators *)
RECURSIVE Split(_, _)
Split(s, sep) ==
    LET i == FindChr(s, {sep})
    IN  IF i = Len(s) THEN << s >>
        ELSE << SeqTake(s, i) >> \o Split(SeqDrop(s, i + 1), sep)

(* [&str]::join(";") *)
RECURSIVE Join(_, _)
Join(toks, sep) ==
    IF toks = << >> THEN << >>
    ELSE IF Len(toks) = 1 THEN toks[1]
    ELSE toks[1] \o << sep >> \o Join(Tail(toks), sep)

-----------------------------------------------------------------------------
(* ini_core::Parser configured with auto_trim(true), comment_char(b'#') *)

CommentChar == "#"

Item(kind, key, value) == [kind |-> kind, key |-> key, value |-> value]

(* One call of the iterator on the remaining input s.  section_ended is   *)
(* the parser's flag that a SectionEnd has been emitted for what follows. *)
ParserNext(s, section_ended) ==
    IF s = << >> THEN
        IF section_ended
        THEN [item |-> Item("Eof", << >>, None), s |-> s, section_ended |-> TRUE]
        ELSE [item |-> Item("SectionEnd", << >>, None), s |-> s, section_ended |-> TRUE]
    ELSE IF Head(s) \in {NL, "\r"} THEN
        [item |-> Item("Blank", << >>, None), s |-> SkipLn(s),
         section_ended |-> section_ended]
    ELSE IF Head(s) = CommentChar THEN
        LET i == FindNl(s)
        IN  [item |-> Item("Comment", Trim(SubSeq(s, 2, i)), None),
             s |-> SkipLn(SeqDrop(s, i)), section_ended |-> section_ended]
    ELSE IF Head(s) = "[" THEN
        IF ~section_ended
        THEN [item |-> Item("SectionEnd", << >>, None), s |-> s, section_ended |-> TRUE]
        ELSE LET i == FindNl(s)
             IN  IF s[i] # "]"
                 THEN [item |-> Item("Error", SeqTake(s, i), None),
                       s |-> SkipLn(SeqDrop(s, i)), section_ended |-> FALSE]
                 ELSE [item |-> Item("Section", Trim(SubSeq(s, 2, i - 1)), None),
                       s |-> SkipLn(SeqDrop(s, i)), section_ended |-> FALSE]
    ELSE
        LET i   == FindNlChr(s, "=")
            key == Trim(SeqTake(s, i))
        IN  IF i >= Len(s) \/ s[i + 1] # "="
            THEN [item |-> IF key = << >> THEN Item("Blank", << >>, None)
                           ELSE Item("Property", key, None),
                  s |-> SkipLn(SeqDrop(s, i)), section_ended |-> section_ended]
            ELSE LET r == SeqDrop(s, i + 1)
                     j == FindNl(r)
                 IN  [item |-> Item("Property", key, Some(Trim(SeqTake(r, j)))),
                      s |-> SkipLn(SeqDrop(r, j)), section_ended |-> section_ended]

-----------------------------------------------------------------------------
(* ConfigFile::parse *)

Property(key, value) == [key |-> key, value |-> value]

Section(name, properties) == [name |-> name, properties |-> properties]

ConfigFile(properties, sections) == [properties |-> properties, sections |-> sections]

(* the value split on ';' and every token trimmed again *)
PropertyValueTrimmed(value) ==
    IF value.some
    THEN Some([i \in DOMAIN Split(value.v, ";") |-> Trim(Split(value.v, ";")[i])])
    ELSE None

(* the value of a property item: split on ';' when present *)
PropertyValue(value) ==
    IF value.some THEN Some(Split(value.v, ";")) ELSE None

(* the closure with the in_section flag ignored when a property is pushed *)
ParseItemAlwaysGlobal(st, item) ==
    CASE item.kind = "SectionEnd" ->
            [st EXCEPT !.file.sections =
                          IF st.in_section THEN Append(@, st.section) ELSE @,
                       !.in_section = FALSE]
      [] item.kind = "Section" ->
            [st EXCEPT !.section = Section(item.key, << >>),
                       !.in_section = TRUE]
      [] item.kind = "Property" ->
            [st EXCEPT !.file.properties =
                          Append(@, Property(item.key, PropertyValue(item.value)))]
      [] OTHER -> st

(* the closure passed to for_each; st holds file, in_section and section *)
ParseItem(st, item) ==
    CASE item.kind = "SectionEnd" ->
            [st EXCEPT !.file.sections =
                          IF st.in_section THEN Append(@, st.section) ELSE @,
                       !.in_section = FALSE]
      [] item.kind = "Section" ->
            [st EXCEPT !.section = Section(item.key, << >>),
                       !.in_section = TRUE]
      [] item.kind = "Property" ->
            LET property == Property(item.key, PropertyValue(item.value))
            IN  IF st.in_section
                THEN [st EXCEPT !.section.properties = Append(@, property)]
                ELSE [st EXCEPT !.file.properties = Append(@, property)]
      [] OTHER -> st

RECURSIVE ParseLoop(_, _, _)
ParseLoop(s, section_ended, st) ==
    LET n == ParserNext(s, section_ended)
    IN  IF n.item.kind = "Eof" THEN st.file
        ELSE ParseLoop(n.s, n.section_ended, ParseItem(st, n.item))

Parse(text) ==
    ParseLoop(text, FALSE,
              [file |-> ConfigFile(<< >>, << >>),
               in_section |-> FALSE,
               section |-> Section(<< >>, << >>)])

-----------------------------------------------------------------------------
(* ConfigFile::format *)

(* the formatted line assigned to the buffer, not pushed onto it *)
AddPropertyOverwrite(str, prop) ==
    LET value == IF prop.value.some THEN Join(prop.value.v, ";") ELSE << >>
    IN  prop.key \o << " ", "=", " " >> \o value \o << NL >>

AddProperty(str, prop) ==
    LET value == IF prop.value.some THEN Join(prop.value.v, ";") ELSE << >>
    IN  str \o prop.key \o << " ", "=", " " >> \o value \o << NL >>

RECURSIVE AddProperties(_, _)
AddProperties(str, props) ==
    IF props = << >> THEN str
    ELSE AddProperties(AddProperty(str, Head(props)), Tail(props))

(* the blank line written only when something precedes the section *)
AddSectionNoLeadingBlank(str, section) ==
    AddProperties((IF str = << >> THEN << >> ELSE << NL >>)
                      \o << "[" >> \o section.name \o << "]", NL >>,
                  section.properties)

AddSection(str, section) ==
    AddProperties(str \o << NL, "[" >> \o section.name \o << "]", NL >>,
                  section.properties)

RECURSIVE AddSections(_, _)
AddSections(str, sections) ==
    IF sections = << >> THEN str
    ELSE AddSections(AddSection(str, Head(sections)), Tail(sections))

Format(f, str) == AddSections(AddProperties(str, f.properties), f.sections)

-----------------------------------------------------------------------------
(* ConfigFile::to_map *)

EmptyMap == [k \in {} |-> None]

(* an insert that keeps the entry a key already has *)
InsertKeepFirst(m, k, v) ==
    [x \in (DOMAIN m) \cup {k} |-> IF x \in DOMAIN m THEN m[x] ELSE v]

(* HashMap::insert: the entry for k is replaced, the others are kept *)
Insert(m, k, v) == [x \in (DOMAIN m) \cup {k} |-> IF x = k THEN v ELSE m[x]]

RECURSIVE InsertProperties(_, _)
InsertProperties(m, props) ==
    IF props = << >> THEN m
    ELSE InsertProperties(Insert(m, Head(props).key, Head(props).value), Tail(props))

(* a section added to the mapping its name already has, not to a fresh one *)
InsertSectionMerged(m, s) ==
    Insert(m, s.name,
           InsertProperties(IF s.name \in DOMAIN m THEN m[s.name] ELSE EmptyMap,
                            s.properties))

(* one round of the section loop: a fresh mapping, filled, then inserted *)
InsertSection(m, s) ==
    Insert(m, s.name, InsertProperties(EmptyMap, s.properties))

RECURSIVE InsertSections(_, _)
InsertSections(m, sections) ==
    IF sections = << >> THEN m
    ELSE InsertSections(InsertSection(m, Head(sections)), Tail(sections))

ConfigMap(properties, sections) == [properties |-> properties, sections |-> sections]

ToMap(f) ==
    ConfigMap(InsertProperties(EmptyMap, f.properties),
              InsertSections(EmptyMap, f.sections))

-----------------------------------------------------------------------------
(* ConfigMap::to_file *)

(* the orders in which a HashMap with key set S can be iterated *)
IterOrders(S) ==
    {q \in [1..Cardinality(S) -> S] : \A i, j \in DOMAIN q : i # j => q[i] # q[j]}

Byte(c) ==
    CASE c = NL  -> 10
      [] c = "\r" -> 13
      [] c = " " -> 32
      [] c = "#" -> 35
      [] c = "1" -> 49
      [] c = "2" -> 50
      [] c = "3" -> 51
      [] c = ";" -> 59
      [] c = "=" -> 61
      [] c = "T" -> 84
      [] c = "[" -> 91
      [] c = "]" -> 93
      [] c = "a" -> 97
      [] c = "b" -> 98
      [] c = "s" -> 115
      [] c = "t" -> 116

(* str::cmp(a, b) is Less or Equal: byte-wise lexicographic order *)
RECURSIVE StrLessEq(_, _)
StrLessEq(a, b) ==
    IF a = << >> THEN TRUE
    ELSE IF b = << >> THEN FALSE
    ELSE IF Byte(Head(a)) # Byte(Head(b)) THEN Byte(Head(a)) < Byte(Head(b))
    ELSE StrLessEq(Tail(a), Tail(b))

(* x placed after the elements that do not compare greater (stable) *)
RECURSIVE SortedInsert(_, _)
SortedInsert(sorted, x) ==
    IF sorted = << >> THEN << x >>
    ELSE IF StrLessEq(Head(sorted).name, x.name)
         THEN << Head(sorted) >> \o SortedInsert(Tail(sorted), x)
         ELSE << x >> \o sorted

(* the sections left in iteration order *)
SortByNameSkipped(sections) == sections

RECURSIVE SortByName(_)
SortByName(sections) ==
    IF sections = << >> THEN << >>
    ELSE SortedInsert(SortByName(SeqTake(sections, Len(sections) - 1)),
                      sections[Len(sections)])

(* the entries converted with their values dropped *)
PropertiesToFileNoValue(properties, order) ==
    [i \in 1..Len(order) |-> Property(order[i], None)]

(* properties.iter().map(..).collect(), iterating in the given order *)
PropertiesToFile(properties, order) ==
    [i \in 1..Len(order) |-> Property(order[i], properties[order[i]])]

SectionToFile(name, section, order) ==
    Section(name, PropertiesToFile(section, order))

(* gorder, sorder, porder: the iteration orders of the global mapping, of *)
(* the section mapping and of each section's mapping                      *)
ToFile(m, gorder, sorder, porder) ==
    ConfigFile(
        PropertiesToFile(m.properties, gorder),
        SortByName([i \in 1..Len(sorder) |->
                       SectionToFile(sorder[i], m.sections[sorder[i]],
                                     porder[sorder[i]])]))

-----------------------------------------------------------------------------
(* has_printer_and_nozzle (src/src/main.rs) *)

(* the nozzle pushed without looking for it in the list *)
HasPrinterAndNozzleAlwaysPush(ps, name, nozzle) ==
    LET entered == IF name \in DOMAIN ps THEN ps ELSE Insert(ps, name, None)
    IN  IF entered[name].some
        THEN [entered EXCEPT ![name] = Some(Append(@.v, nozzle))]
        ELSE Insert(entered, name, Some(<< nozzle >>))

(* entry(name).or_insert(None), then push if absent, or insert a new list *)
HasPrinterAndNozzle(ps, name, nozzle) ==
    LET entered == IF name \in DOMAIN ps THEN ps ELSE Insert(ps, name, None)
    IN  IF entered[name].some
        THEN IF \E i \in DOMAIN entered[name].v : entered[name].v[i] = nozzle
             THEN entered
             ELSE [entered EXCEPT ![name] = Some(Append(@.v, nozzle))]
        ELSE Insert(entered, name, Some(<< nozzle >>))

-----------------------------------------------------------------------------
(* Inputs *)

Line(shape, name, txt) == [shape |-> shape, name |-> name, txt |-> txt]

HeaderLines ==
    { Line("header", << "t" >>, << "[", "t", "]" >>),
      Line("header", << "s" >>, << "[", "s", "]" >>) }

KeyValueLines ==
    { Line("keyvalue", << "a" >>, << "a", " ", "=", " ", "1" >>),
      Line("keyvalue", << "a" >>, << "a", "=", "2", ";", " ", "3", " " >>),
      Line("keyvalue", << "b" >>, << " ", "b", " ", "=", " ", "1" >>) }

EmptyValueLines ==
    { Line("emptyvalue", << "a" >>, << "a", " ", "=" >>) }

BareKeyLines ==
    { Line("barekey", << "b" >>, << "b" >>) }

CommentLines ==
    { Line("comment", << >>, << "#", " ", "a", "=", "1" >>) }

BlankLines ==
    { Line("blank", << >>, << >>) }

MalformedLines ==
    { Line("malformed", << >>, << "[", "s" >>) }

PropertyLines == KeyValueLines \cup EmptyValueLines \cup BareKeyLines

SupportedLines == HeaderLines \cup PropertyLines \cup CommentLines \cup BlankLines

AllLines == SupportedLines \cup MalformedLines

SeqsUpTo(S, n) == UNION {[1..k -> S] : k \in 0..n}

(* the text of the lines, a newline between two lines *)
RECURSIVE TextOf(_)
TextOf(ls) ==
    IF ls = << >> THEN << >>
    ELSE IF Len(ls) = 1 THEN ls[1].txt
    ELSE ls[1].txt \o << NL >> \o TextOf(Tail(ls))

DocKeys == { << "a" >>, << "b" >> }

DocValues == { None, Some(<< << "1" >> >>), Some(<< << "2" >>, << "3" >> >>) }

DocNames == { << "t" >>, << "s" >>, << "T" >>, << "s", "t" >> }

PrinterNames == { << "a" >>, << "b" >> }

Nozzles == { << "1" >>, << "2" >>, << "3" >> }

DocProperties == {Property(k, v) : k \in DocKeys, v \in DocValues}

(* the ways to cut a list of n properties into a global list and k section *)
(* lists: cut[j] is the list of property j, 0 for the global list          *)
Cuts(n, k) ==
    {cut \in [1..n -> 0..k] : \A i, j \in 1..n : i <= j => cut[i] <= cut[j]}

CutPart(ps, cut, g) ==
    LET before == Cardinality({j \in DOMAIN ps : cut[j] < g})
        size   == Cardinality({j \in DOMAIN ps : cut[j] = g})
    IN  [j \in 1..size |-> ps[before + j]]

(* every ConfigFile over DocKeys, DocValues and DocNames with at most      *)
(* MaxDocProps properties in all and at most MaxDocSections sections       *)
Documents ==
    {ConfigFile(CutPart(ps, cut, 0),
                [i \in 1..Len(ns) |-> Section(ns[i], CutPart(ps, cut, i))]) :
        <<ps, ns, cut>> \in
            {t \in SeqsUpTo(DocProperties, MaxDocProps)
                   \X SeqsUpTo(DocNames, MaxDocSections)
                   \X UNION {[1..n -> 0..MaxDocSections] : n \in 0..MaxDocProps} :
                t[3] \in Cuts(Len(t[1]), Len(t[2]))}}

-----------------------------------------------------------------------------
(* State machine: a caller that loads a text or builds a ConfigFile, then  *)
(* either formats it and parses the output again, or converts it to a      *)
(* ConfigMap and back.                                                     *)

NoFile == ConfigFile(<< >>, << >>)

NoMap == ConfigMap(EmptyMap, EmptyMap)

Init ==
    /\ printers = EmptyMap
    /\ calls = << >>
    /\ out = << >>
    /\ reparsed = NoFile
    /\ map = NoMap
    /\ refiled = NoFile
    /\ remapped = NoMap
    /\ \/ /\ origin = "text"
          /\ lines \in SeqsUpTo(AllLines, MaxLines)
          /\ contents = TextOf(lines)
          /\ file = NoFile
          /\ pc = "start"
       \/ /\ origin = "document"
          /\ lines = << >>
          /\ contents = << >>
          /\ file \in Documents
          /\ pc = "parsed"

(* ConfigFile::parse(contents) *)
ParseContents ==
    /\ pc = "start"
    /\ file' = Parse(contents)
    /\ pc' = "parsed"
    /\ UNCHANGED <<origin, lines, contents, out, reparsed, map, refiled, remapped,
                 printers, calls>>

(* file.format(&mut out) *)
FormatFile ==
    /\ pc = "parsed"
    /\ out' = Format(file, out)
    /\ pc' = "formatted"
    /\ UNCHANGED <<origin, lines, contents, file, reparsed, map, refiled, remapped,
                 printers, calls>>

(* ConfigFile::parse(&out) *)
ParseOut ==
    /\ pc = "formatted"
    /\ reparsed' = Parse(out)
    /\ pc' = "reparsed"
    /\ UNCHANGED <<origin, lines, contents, file, out, map, refiled, remapped,
                 printers, calls>>

(* let mut out = contents.to_string(); file.format(&mut out): the document *)
(* formatted onto a buffer that holds the text it was parsed from           *)
FormatAppend ==
    /\ pc = "parsed"
    /\ origin = "text"
    /\ out' = Format(file, contents)
    /\ pc' = "appended"
    /\ UNCHANGED <<origin, lines, contents, file, reparsed, map, refiled, remapped,
                 printers, calls>>

(* file.to_map() *)
ToMapFile ==
    /\ pc = "parsed"
    /\ map' = ToMap(file)
    /\ pc' = "mapped"
    /\ UNCHANGED <<origin, lines, contents, file, out, reparsed, refiled, remapped,
                 printers, calls>>

(* map.to_file() *)
ToFileMap ==
    /\ pc = "mapped"
    /\ \E gorder \in IterOrders(DOMAIN map.properties),
          sorder \in IterOrders(DOMAIN map.sections) :
          \E porder \in {f \in [DOMAIN map.sections ->
                                  UNION {IterOrders(DOMAIN map.sections[n]) :
                                            n \in DOMAIN map.sections}] :
                            \A n \in DOMAIN map.sections :
                                f[n] \in IterOrders(DOMAIN map.sections[n])} :
              refiled' = ToFile(map, gorder, sorder, porder)
    /\ pc' = "filed"
    /\ UNCHANGED <<origin, lines, contents, file, out, reparsed, map, remapped,
                 printers, calls>>

(* refiled.to_map() *)
ToMapRefiled ==
    /\ pc = "filed"
    /\ remapped' = ToMap(refiled)
    /\ pc' = "remapped"
    /\ UNCHANGED <<origin, lines, contents, file, out, reparsed, map, refiled,
                 printers, calls>>

(* a caller changes the map it got from to_map: has_printer_and_nozzle on *)
(* the global mapping                                                    *)
MutateMap ==
    /\ pc = "mapped"
    /\ \E name \in PrinterNames, nozzle \in Nozzles :
          map' = [map EXCEPT !.properties = HasPrinterAndNozzle(@, name, nozzle)]
    /\ pc' = "mutated"
    /\ UNCHANGED <<origin, lines, contents, file, out, reparsed, refiled, remapped,
                 printers, calls>>

Next ==
    \/ ParseContents
    \/ FormatFile
    \/ FormatAppend
    \/ ParseOut
    \/ ToMapFile
    \/ ToFileMap
    \/ ToMapRefiled
    \/ MutateMap

Spec == Init /\ [][Next]_vars

(* A caller that keeps a printers map and calls has_printer_and_nozzle on  *)
(* it: the map starts empty, or holds a printer read without a value.      *)
InitPrinters ==
    /\ pc = "printers"
    /\ lines = << >>
    /\ contents = << >>
    /\ file = NoFile
    /\ out = << >>
    /\ reparsed = NoFile
    /\ map = NoMap
    /\ refiled = NoFile
    /\ remapped = NoMap
    /\ calls = << >>
    /\ \/ origin = "new_map" /\ printers = EmptyMap
       \/ origin = "loaded_map" /\ printers \in {Insert(EmptyMap, n, None) : n \in PrinterNames}

(* has_printer_and_nozzle(&mut printers, name, nozzle) *)
CallHasPrinterAndNozzle ==
    /\ pc = "printers"
    /\ Len(calls) < MaxCalls
    /\ \E name \in PrinterNames, nozzle \in Nozzles :
          /\ printers' = HasPrinterAndNozzle(printers, name, nozzle)
          /\ calls' = Append(calls, [name |-> name, nozzle |-> nozzle])
    /\ UNCHANGED <<pc, origin, lines, contents, file, out, reparsed, map, refiled,
                   remapped>>

NextPrinters == CallHasPrinterAndNozzle

SpecPrinters == InitPrinters /\ [][NextPrinters]_vars

TypeOK ==
    /\ pc \in {"start", "parsed", "formatted", "appended", "reparsed", "mapped",
              "mutated", "filed", "remapped", "printers"}
    /\ origin \in {"text", "document", "new_map", "loaded_map"}

-----------------------------------------------------------------------------
(* Vocabulary of the properties *)

Range(q) == {q[i] : i \in DOMAIN q}

Keys(props) == [i \in DOMAIN props |-> props[i].key]

Names(sections) == [i \in DOMAIN sections |-> sections[i].name]

Unique(q) == \A i, j \in DOMAIN q : i # j => q[i] # q[j]

UniqueKeysAndNames(f) ==
    /\ Unique(Keys(f.properties))
    /\ Unique(Names(f.sections))
    /\ \A i \in DOMAIN f.sections : Unique(Keys(f.sections[i].properties))

NoSemicolonInTokens(props) ==
    \A i \in DOMAIN props :
        props[i].value.some =>
            \A t \in DOMAIN props[i].value.v : ";" \notin Range(props[i].value.v[t])

NoSemicolon(f) ==
    /\ NoSemicolonInTokens(f.properties)
    /\ \A i \in DOMAIN f.sections : NoSemicolonInTokens(f.sections[i].properties)

RECURSIVE AllProperties(_)
AllProperties(sections) ==
    IF sections = << >> THEN << >>
    ELSE Head(sections).properties \o AllProperties(Tail(sections))

IsPropertyLine(l) == l.shape \in {"keyvalue", "emptyvalue", "barekey"}

IsSupportedLine(l) == l.shape # "malformed"

OnlySupported(ls) == \A i \in DOMAIN ls : IsSupportedLine(ls[i])

(* what the text says, read line by line: the keys before the next header *)
RECURSIVE KeysUntilHeader(_)
KeysUntilHeader(ls) ==
    IF ls = << >> \/ Head(ls).shape = "header" THEN << >>
    ELSE (IF IsPropertyLine(Head(ls)) THEN << Head(ls).name >> ELSE << >>)
             \o KeysUntilHeader(Tail(ls))

(* one group per header line: its name and the keys up to the next header *)
RECURSIVE HeaderGroups(_)
HeaderGroups(ls) ==
    IF ls = << >> THEN << >>
    ELSE IF Head(ls).shape = "header"
         THEN << [name |-> Head(ls).name, keys |-> KeysUntilHeader(Tail(ls))] >>
                  \o HeaderGroups(Tail(ls))
         ELSE HeaderGroups(Tail(ls))

Parsed == origin = "text" /\ pc # "start"

-----------------------------------------------------------------------------
(* C1: for every text made only of supported line shapes, parsing it,      *)
(* formatting the result into an empty buffer and parsing that output      *)
(* again gives a document equal to the first parse result.                 *)
C1_ReparseEqualsParse ==
    (origin = "text" /\ pc = "reparsed" /\ OnlySupported(lines)) => reparsed = file

(* C2: for every document with unique keys, unique section names and no    *)
(* ';' inside a token, parse(format(doc)) equals doc, documents holding a  *)
(* property whose value is None included.                                  *)
C2_ParseFormatIsIdentity ==
    (origin = "document" /\ pc = "reparsed"
        /\ UniqueKeysAndNames(file) /\ NoSemicolon(file)) => reparsed = file

(* C3: for every document with unique keys and unique section names,       *)
(* to_map(to_file(to_map(doc))) equals to_map(doc): same global keys and   *)
(* values, same section names, same keys and values in each section.       *)
C3_MapRoundTrip ==
    (pc = "remapped" /\ UniqueKeysAndNames(file)) =>
        /\ DOMAIN remapped.properties = DOMAIN map.properties
        /\ \A k \in DOMAIN map.properties : remapped.properties[k] = map.properties[k]
        /\ DOMAIN remapped.sections = DOMAIN map.sections
        /\ \A n \in DOMAIN map.sections :
              /\ DOMAIN remapped.sections[n] = DOMAIN map.sections[n]
              /\ \A k \in DOMAIN map.sections[n] :
                    remapped.sections[n][k] = map.sections[n][k]

C3_Witness ==
    /\ pc = "remapped"
    /\ UniqueKeysAndNames(file)
    /\ Len(file.sections) = 2
    /\ Names(refiled.sections) # Names(file.sections)
    /\ \E i \in DOMAIN file.sections :
          \E j \in DOMAIN file.sections[i].properties :
              file.sections[i].properties[j].value.some
    /\ \E j \in DOMAIN file.properties : ~file.properties[j].value.some

(* byte-wise lexicographic order of two names, stated without recursion *)
BytewiseLess(a, b) ==
    \E i \in 1..(Len(a) + 1) :
        /\ \A j \in 1..(i - 1) : j <= Len(b) /\ Byte(a[j]) = Byte(b[j])
        /\ \/ i = Len(a) + 1 /\ Len(b) >= i
           \/ i <= Len(a) /\ i <= Len(b) /\ Byte(a[i]) < Byte(b[i])

(* C4: whatever the iteration order of the section mapping, the sections   *)
(* of the document returned by to_file are in ascending byte-wise order of *)
(* name and are exactly one section per section name of the map.           *)
C4_SectionsSorted ==
    pc = "filed" =>
        /\ \A i, j \in DOMAIN refiled.sections :
              i < j => BytewiseLess(refiled.sections[i].name, refiled.sections[j].name)
        /\ Range(Names(refiled.sections)) = DOMAIN map.sections
        /\ Len(refiled.sections) = Cardinality(DOMAIN map.sections)

C4_Witness ==
    /\ pc = "filed"
    /\ Len(file.sections) = 2
    /\ Names(refiled.sections) = << << "T" >>, << "s" >> >>
    /\ Names(file.sections) = << << "s" >>, << "T" >> >>

(* the mapping m holds, for each key of the list, the value of the last    *)
(* property of the list with that key, and nothing else                    *)
LastValueWins(m, props) ==
    /\ DOMAIN m = Range(Keys(props))
    /\ \A j \in DOMAIN props :
          (\A l \in DOMAIN props : l > j => props[l].key # props[j].key)
              => m[props[j].key] = props[j].value

IsLastOfItsName(sections, i) ==
    \A l \in DOMAIN sections : l > i => sections[l].name # sections[i].name

(* C5: when a list (the global list or one section) holds several          *)
(* properties with the same key, to_map keeps one entry for that key with  *)
(* the value of the property that occurs last; other keys keep their value *)
C5_LastPropertyWins ==
    pc = "mapped" =>
        /\ LastValueWins(map.properties, file.properties)
        /\ \A i \in DOMAIN file.sections :
              IsLastOfItsName(file.sections, i) =>
                  LastValueWins(map.sections[file.sections[i].name],
                                file.sections[i].properties)

HasDuplicateKey(props) ==
    \E i, j \in DOMAIN props :
        i < j /\ props[i].key = props[j].key /\ props[i].value # props[j].value

C5_Witness ==
    /\ pc = "mapped"
    /\ \/ HasDuplicateKey(file.properties)
       \/ \E i \in DOMAIN file.sections : HasDuplicateKey(file.sections[i].properties)

(* C6: when several sections have the same name, to_map keeps one mapping  *)
(* for that name, holding only the keys of the last such section: keys of  *)
(* an earlier section of that name only are absent.                        *)
C6_LastSectionReplaces ==
    pc = "mapped" =>
        /\ DOMAIN map.sections = Range(Names(file.sections))
        /\ \A i \in DOMAIN file.sections :
              IsLastOfItsName(file.sections, i) =>
                  DOMAIN map.sections[file.sections[i].name]
                      = Range(Keys(file.sections[i].properties))

C6_Witness ==
    /\ pc = "mapped"
    /\ \E i, j \in DOMAIN file.sections :
          /\ i < j
          /\ file.sections[i].name = file.sections[j].name
          /\ \E k \in Range(Keys(file.sections[i].properties)) :
                k \notin DOMAIN map.sections[file.sections[i].name]

(* the property lines of the text, in text order *)
RECURSIVE PropertyLinesOf(_)
PropertyLinesOf(ls) ==
    IF ls = << >> THEN << >>
    ELSE (IF IsPropertyLine(Head(ls)) THEN << Head(ls) >> ELSE << >>)
             \o PropertyLinesOf(Tail(ls))

ParsedProperties == file.properties \o AllProperties(file.sections)

(* C7: a key/value line whose value is empty after trimming and a bare key *)
(* line both parse to a Property whose value is None, and formatting such  *)
(* a Property appends exactly the key, " = " and a newline.                *)
C7_EmptyValueIsNone ==
    (Parsed /\ OnlySupported(lines)) =>
        /\ Len(ParsedProperties) = Len(PropertyLinesOf(lines))
        /\ \A j \in DOMAIN ParsedProperties :
              PropertyLinesOf(lines)[j].shape \in {"emptyvalue", "barekey"} =>
                  /\ ParsedProperties[j].value = None
                  /\ AddProperty(<< >>, ParsedProperties[j])
                        = PropertyLinesOf(lines)[j].name \o << " ", "=", " ", NL >>

C9_SectionPerHeader ==
    Parsed =>
        /\ Len(file.sections) = Len(HeaderGroups(lines))
        /\ \A i \in DOMAIN file.sections :
              /\ file.sections[i].name = HeaderGroups(lines)[i].name
              /\ Keys(file.sections[i].properties) = HeaderGroups(lines)[i].keys

RECURSIVE WithoutMalformed(_)
WithoutMalformed(ls) ==
    IF ls = << >> THEN << >>
    ELSE (IF IsSupportedLine(Head(ls)) THEN << Head(ls) >> ELSE << >>)
             \o WithoutMalformed(Tail(ls))

(* C10: a malformed line adds no Property and no Section, and every        *)
(* well-formed line before and after it is recorded exactly as if the      *)
(* malformed line were absent.                                             *)
C10_MalformedLineIgnored ==
    Parsed => file = Parse(TextOf(WithoutMalformed(lines)))

(* the tokens of a value written with a ';' between two of them *)
RECURSIVE ValueText(_)
ValueText(toks) ==
    IF toks = << >> THEN << >>
    ELSE (IF Len(toks) > 1
          THEN ValueText(SubSeq(toks, 1, Len(toks) - 1)) \o << ";" >>
          ELSE << >>) \o toks[Len(toks)]

PropertyLine(p) ==
    p.key \o << " ", "=", " " >> \o (IF p.value.some THEN ValueText(p.value.v) ELSE << >>)

PropertyLinesText(props) == [i \in DOMAIN props |-> PropertyLine(props[i])]

(* per section: a blank line, the header line, the property lines *)
RECURSIVE SectionLinesText(_)
SectionLinesText(sections) ==
    IF sections = << >> THEN << >>
    ELSE << << >>, << "[" >> \o Head(sections).name \o << "]" >> >>
             \o PropertyLinesText(Head(sections).properties)
             \o SectionLinesText(Tail(sections))

(* every line followed by a newline *)
RECURSIVE Terminated(_)
Terminated(ls) ==
    IF ls = << >> THEN << >> ELSE Head(ls) \o << NL >> \o Terminated(Tail(ls))

ExpectedOutput(f) ==
    Terminated(PropertyLinesText(f.properties) \o SectionLinesText(f.sections))

TrimmedValueOf(txt) ==
    LET e  == CHOOSE i \in DOMAIN txt :
                  txt[i] = "=" /\ \A k \in 1..(i - 1) : txt[k] # "="
        lo == CHOOSE i \in (e + 1)..Len(txt) :
                  txt[i] # " " /\ \A k \in (e + 1)..(i - 1) : txt[k] = " "
        hi == CHOOSE i \in lo..Len(txt) :
                  txt[i] # " " /\ \A k \in (i + 1)..Len(txt) : txt[k] = " "
    IN  SubSeq(txt, lo, hi)

(* C12: for every key/value line with a non-empty trimmed value, parse     *)
(* yields a present value of one or more tokens, the trimmed value split   *)
(* on every ';', each token verbatim and free of ';'; the tokens joined    *)
(* with ';' are the trimmed value, so formatting the Property appends      *)
(* "<key> = <trimmed value>" and a newline.                                *)
C12_TokensOfValue ==
    (Parsed /\ OnlySupported(lines)) =>
        /\ Len(ParsedProperties) = Len(PropertyLinesOf(lines))
        /\ \A j \in DOMAIN ParsedProperties :
              PropertyLinesOf(lines)[j].shape = "keyvalue" =>
                  LET l == PropertyLinesOf(lines)[j]
                      v == TrimmedValueOf(l.txt)
                      p == ParsedProperties[j]
                  IN  /\ p.key = l.name
                      /\ p.value.some
                      /\ Len(p.value.v) = 1 + Cardinality({k \in DOMAIN v : v[k] = ";"})
                      /\ \A t \in DOMAIN p.value.v : ";" \notin Range(p.value.v[t])
                      /\ ValueText(p.value.v) = v
                      /\ AddProperty(<< >>, p) = l.name \o << " ", "=", " " >> \o v \o << NL >>

C12_Witness ==
    /\ Parsed
    /\ OnlySupported(lines)
    /\ Len(ParsedProperties) = Len(PropertyLinesOf(lines))
    /\ \E j \in DOMAIN ParsedProperties :
          /\ PropertyLinesOf(lines)[j].shape = "keyvalue"
          /\ ParsedProperties[j].value = Some(<< << "2" >>, << " ", "3" >> >>)

CallsFor(n) == {i \in DOMAIN calls : calls[i].name = n}

FirstCall(n, z) ==
    CHOOSE i \in CallsFor(n) :
        calls[i].nozzle = z /\ \A k \in CallsFor(n) : calls[k].nozzle = z => i <= k

(* list holds each nozzle passed for n once, in the order of first call *)
NozzlesInOrderOfFirstCall(list, n) ==
    /\ Unique(list)
    /\ Range(list) = {calls[i].nozzle : i \in CallsFor(n)}
    /\ \A x, y \in DOMAIN list : x < y => FirstCall(n, list[x]) < FirstCall(n, list[y])

StartedWith ==
    IF origin = "new_map" THEN {}
    ELSE {n \in DOMAIN printers : CallsFor(n) = {}}

(* C13: after any sequence of has_printer_and_nozzle calls every printer   *)
(* name passed so far maps to a present nozzle list that holds each nozzle *)
(* passed for that name exactly once, in order of first call; a repeated   *)
(* pair changes nothing, a printer whose value is None gets the            *)
(* one-element list on its first call, and the entries of printers not     *)
(* called are as they were.                                                *)
C13_PrintersAndNozzles ==
    pc = "printers" =>
        /\ DOMAIN printers = {calls[i].name : i \in DOMAIN calls} \cup StartedWith
        /\ origin = "new_map" => StartedWith = {}
        /\ \A n \in DOMAIN printers :
              IF CallsFor(n) = {}
              THEN printers[n] = None
              ELSE /\ printers[n].some
                   /\ NozzlesInOrderOfFirstCall(printers[n].v, n)

C13_Witness ==
    /\ pc = "printers"
    /\ origin = "new_map"
    /\ \E i, j \in DOMAIN calls : i < j /\ calls[i] = calls[j]
    /\ \E n \in DOMAIN printers : Len(printers[n].v) = 2
    /\ Cardinality(DOMAIN printers) = 2

IsPrefix(a, b) == Len(a) <= Len(b) /\ a = SubSeq(b, 1, Len(a))

(* C14: no codec operation changes its input: to_map leaves the document   *)
(* unchanged, to_file leaves the map unchanged, a later mutation of the    *)
(* map returned by to_map does not change the document it came from, and   *)
(* format leaves the document unchanged and keeps the prior contents of    *)
(* the buffer as a prefix of the result.                                   *)
C14_InputsUnchanged ==
    [][ /\ (pc = "parsed" /\ pc' = "mapped") => file' = file
        /\ (pc = "filed" /\ pc' = "remapped") => refiled' = refiled /\ file' = file
        /\ (pc = "mapped" /\ pc' = "filed") => map' = map /\ file' = file
        /\ (pc = "mapped" /\ pc' = "mutated") => file' = file
        /\ (pc = "parsed" /\ pc' = "formatted") => file' = file /\ IsPrefix(out, out')
        /\ (pc = "parsed" /\ pc' = "appended") => file' = file /\ IsPrefix(contents, out')
      ]_vars

C14_Witness ==
    /\ pc = "appended"
    /\ Len(file.properties) >= 1
    /\ Len(file.sections) >= 1
    /\ contents # << >>
    /\ Len(out) > Len(contents)

=============================================================================
